---- MODULE Spec2Model ----
(***************************************************************************)
(* Fast path router planner of Citus                                       *)
(* (src/backend/distributed/planner/fast_path_router_planner.c).           *)
(*                                                                         *)
(* FastPathRouterQuery classifies a parsed Query as eligible for the fast  *)
(* path and may record the value bound to the distribution column in the   *)
(* caller's distributionKeyValue slot; GeneratePlaceHolderPlannedStmt      *)
(* builds the placeholder plan of an eligible query.  Parse trees are      *)
(* records tagged with the node kind; the C functions are operators that   *)
(* return the C return value together with the out-parameter.              *)
(***************************************************************************)
EXTENDS Integers, Sequences, FiniteSets

(***************************************************************************)
(* Bounds of the enumerated inputs.                                        *)
(***************************************************************************)
\* external parameters $1 .. $MaxParamId
MaxParamId == 2
\* distinct values of the non-null constants of the column's type
MaxConstValue == 2

(***************************************************************************)
(* Parse tree nodes.                                                       *)
(***************************************************************************)
\* the NULL pointer (also NIL, the empty List)
NULL == [kind |-> "NULL"]

\* Var: a column reference; equal() compares every field
Var(attno, type) == [kind |-> "Var", varno |-> 1, varattno |-> attno, vartype |-> type]

\* Const: a literal of a type, possibly the null literal
Const(type, value, isnull) ==
    [kind |-> "Const", consttype |-> type, constvalue |-> value, constisnull |-> isnull]

\* Param: $n of the statement (PARAM_EXTERN) or an executor-internal one (PARAM_EXEC)
Param(paramkind, id) == [kind |-> "Param", paramkind |-> paramkind, paramid |-> id]

\* FuncExpr: a function call, an operand that is neither Var, Const nor Param
FuncExpr(args) == [kind |-> "FuncExpr", args |-> args]

\* OpExpr: an operator applied to its arguments
OpExpr(opno, args) == [kind |-> "OpExpr", opno |-> opno, args |-> args]

\* BoolExpr: AND_EXPR, OR_EXPR or NOT_EXPR over its arguments
BoolExpr(boolop, args) == [kind |-> "BoolExpr", boolop |-> boolop, args |-> args]

\* List: the implicit-AND list form of a qualifier
List(elements) == [kind |-> "List", elements |-> elements]

\* IsA(node, tag)
IsA(node, tag) == node.kind = tag

\* equal(a, b), the node comparison; copyObject(node) is a node equal to its argument
equal(a, b) == a = b

(***************************************************************************)
(* The catalog: the metadata cache and the operator families.              *)
(***************************************************************************)
InvalidOid == "InvalidOid"

\* pg_dist_partition: the partition method of every Citus table of the catalog
CitusTableCache ==
    [hash_tbl   |-> [partitionMethod |-> "DISTRIBUTE_BY_HASH"],
     range_tbl  |-> [partitionMethod |-> "DISTRIBUTE_BY_RANGE"],
     append_tbl |-> [partitionMethod |-> "DISTRIBUTE_BY_APPEND"],
     ref_tbl    |-> [partitionMethod |-> "DISTRIBUTE_BY_NONE"]]

CitusTables == DOMAIN CitusTableCache

GetCitusTableCacheEntry(relationId) == CitusTableCache[relationId]

\* IsCitusTableTypeCacheEntry(entry, tableType)
IsCitusTableTypeCacheEntry(cacheEntry, tableType) ==
    CASE tableType = "HASH_DISTRIBUTED"   -> cacheEntry.partitionMethod = "DISTRIBUTE_BY_HASH"
      [] tableType = "RANGE_DISTRIBUTED"  -> cacheEntry.partitionMethod = "DISTRIBUTE_BY_RANGE"
      [] tableType = "APPEND_DISTRIBUTED" -> cacheEntry.partitionMethod = "DISTRIBUTE_BY_APPEND"
      [] tableType = "DISTRIBUTED_TABLE"  -> cacheEntry.partitionMethod # "DISTRIBUTE_BY_NONE"
      [] tableType = "REFERENCE_TABLE"    -> cacheEntry.partitionMethod = "DISTRIBUTE_BY_NONE"

\* the distribution column of every distributed table: column 1, of type int4;
\* column 2 is another int4 column of the same table
DistKey == Var(1, "int4")
OtherCol == Var(2, "int4")

\* PartitionColumn(relationId, rangeTableId): NULL for a table without one
PartitionColumn(relationId, rangeTableId) ==
    IF GetCitusTableCacheEntry(relationId).partitionMethod = "DISTRIBUTE_BY_NONE"
    THEN NULL
    ELSE DistKey

\* OperatorImplementsEquality(opno): the operator is the equality of a btree family
OperatorImplementsEquality(opno) == opno = "="

(***************************************************************************)
(* Helpers of the planner that live outside the file.                      *)
(***************************************************************************)
\* BinaryOpExpression(clause, &left, &right): an operator with exactly two operands
BinaryOpExpression(clause) ==
    IF IsA(clause, "OpExpr") /\ Len(clause.args) = 2
    THEN [ret |-> TRUE, leftOperand |-> clause.args[1], rightOperand |-> clause.args[2]]
    ELSE [ret |-> FALSE, leftOperand |-> NULL, rightOperand |-> NULL]

\* make_ands_explicit(list): the list's only element, or the AND of its elements
make_ands_explicit(andclauses) ==
    IF Len(andclauses.elements) = 1
    THEN andclauses.elements[1]
    ELSE BoolExpr("AND_EXPR", andclauses.elements)

RECURSIVE pull_var_clause_default(_)
RECURSIVE PullVarList(_, _)
\* pull_var_clause_default(node): every Var of the tree, left to right
pull_var_clause_default(node) ==
    CASE IsA(node, "Var")      -> <<node>>
      [] IsA(node, "OpExpr")   -> PullVarList(node.args, 1)
      [] IsA(node, "BoolExpr") -> PullVarList(node.args, 1)
      [] IsA(node, "FuncExpr") -> PullVarList(node.args, 1)
      [] IsA(node, "List")     -> PullVarList(node.elements, 1)
      [] OTHER                 -> <<>>

PullVarList(nodes, i) ==
    IF i > Len(nodes)
    THEN <<>>
    ELSE pull_var_clause_default(nodes[i]) \o PullVarList(nodes, i + 1)

(***************************************************************************)
(* The distributionKeyValue out-parameter.  value is what the pointer      *)
(* holds; writes logs every assignment through the pointer, in order, with *)
(* the clause being examined.                                              *)
(***************************************************************************)
EmptySlot == [value |-> NULL, writes |-> <<>>]

\* *distributionKeyValue = (Node *) copyObject(node)
Store(slot, clause, node) ==
    [value |-> node, writes |-> Append(slot.writes, [clause |-> clause, value |-> node])]

(***************************************************************************)
(* fast_path_router_planner.c                                              *)
(***************************************************************************)
\* faulty variant: DistKeyInSimpleOpExpression without the comparison of vartype and consttype
DistKeyInSimpleOpExpression_AnyConstType(clause, distColumn, slot) ==
    LET operands == BinaryOpExpression(clause)
        leftOperand == operands.leftOperand
        rightOperand == operands.rightOperand
        paramClause ==
            IF IsA(rightOperand, "Param") /\ IsA(leftOperand, "Var") THEN rightOperand
            ELSE IF IsA(leftOperand, "Param") /\ IsA(rightOperand, "Var") THEN leftOperand
            ELSE NULL
        constantClause ==
            IF paramClause # NULL THEN NULL
            ELSE IF IsA(rightOperand, "Const") /\ IsA(leftOperand, "Var") THEN rightOperand
            ELSE IF IsA(leftOperand, "Const") /\ IsA(rightOperand, "Var") THEN leftOperand
            ELSE NULL
        columnInExpr ==
            IF IsA(leftOperand, "Var") THEN leftOperand ELSE rightOperand
        distColumnExists == equal(distColumn, columnInExpr)
    IN  IF ~operands.ret
        THEN [ret |-> FALSE, slot |-> slot]
        ELSE IF paramClause = NULL /\ constantClause = NULL
        THEN [ret |-> FALSE, slot |-> slot]
        ELSE IF paramClause # NULL /\ paramClause.paramkind # "PARAM_EXTERN"
        THEN \* we can only handle param_externs
             [ret |-> FALSE, slot |-> slot]
        ELSE IF constantClause # NULL /\ constantClause.constisnull
        THEN \* we can only handle non-null constants
             [ret |-> FALSE, slot |-> slot]
        ELSE IF /\ distColumnExists
                /\ constantClause # NULL
                /\ slot.value = NULL
        THEN [ret |-> distColumnExists, slot |-> Store(slot, clause, constantClause)]
        ELSE IF paramClause # NULL
        THEN [ret |-> distColumnExists, slot |-> Store(slot, clause, paramClause)]
        ELSE [ret |-> distColumnExists, slot |-> slot]

\* faulty variant: DistKeyInSimpleOpExpression without the branch for a Param on the left
DistKeyInSimpleOpExpression_ParamOnRightOnly(clause, distColumn, slot) ==
    LET operands == BinaryOpExpression(clause)
        leftOperand == operands.leftOperand
        rightOperand == operands.rightOperand
        paramClause ==
            IF IsA(rightOperand, "Param") /\ IsA(leftOperand, "Var") THEN rightOperand
            ELSE NULL
        constantClause ==
            IF paramClause # NULL THEN NULL
            ELSE IF IsA(rightOperand, "Const") /\ IsA(leftOperand, "Var") THEN rightOperand
            ELSE IF IsA(leftOperand, "Const") /\ IsA(rightOperand, "Var") THEN leftOperand
            ELSE NULL
        columnInExpr ==
            IF IsA(leftOperand, "Var") THEN leftOperand ELSE rightOperand
        distColumnExists == equal(distColumn, columnInExpr)
    IN  IF ~operands.ret
        THEN [ret |-> FALSE, slot |-> slot]
        ELSE IF paramClause = NULL /\ constantClause = NULL
        THEN [ret |-> FALSE, slot |-> slot]
        ELSE IF paramClause # NULL /\ paramClause.paramkind # "PARAM_EXTERN"
        THEN \* we can only handle param_externs
             [ret |-> FALSE, slot |-> slot]
        ELSE IF constantClause # NULL /\ constantClause.constisnull
        THEN \* we can only handle non-null constants
             [ret |-> FALSE, slot |-> slot]
        ELSE IF /\ distColumnExists
                /\ constantClause # NULL
                /\ distColumn.vartype = constantClause.consttype
                /\ slot.value = NULL
        THEN [ret |-> distColumnExists, slot |-> Store(slot, clause, constantClause)]
        ELSE IF paramClause # NULL
        THEN [ret |-> distColumnExists, slot |-> Store(slot, clause, paramClause)]
        ELSE [ret |-> distColumnExists, slot |-> slot]

\* DistKeyInSimpleOpExpression(clause, distColumn, distributionKeyValue):
\* ret is the return value, slot the out-parameter after the call
DistKeyInSimpleOpExpression(clause, distColumn, slot) ==
    LET operands == BinaryOpExpression(clause)
        leftOperand == operands.leftOperand
        rightOperand == operands.rightOperand
        paramClause ==
            IF IsA(rightOperand, "Param") /\ IsA(leftOperand, "Var") THEN rightOperand
            ELSE IF IsA(leftOperand, "Param") /\ IsA(rightOperand, "Var") THEN leftOperand
            ELSE NULL
        constantClause ==
            IF paramClause # NULL THEN NULL
            ELSE IF IsA(rightOperand, "Const") /\ IsA(leftOperand, "Var") THEN rightOperand
            ELSE IF IsA(leftOperand, "Const") /\ IsA(rightOperand, "Var") THEN leftOperand
            ELSE NULL
        columnInExpr ==
            IF IsA(leftOperand, "Var") THEN leftOperand ELSE rightOperand
        distColumnExists == equal(distColumn, columnInExpr)
    IN  IF ~operands.ret
        THEN [ret |-> FALSE, slot |-> slot]
        ELSE IF paramClause = NULL /\ constantClause = NULL
        THEN [ret |-> FALSE, slot |-> slot]
        ELSE IF paramClause # NULL /\ paramClause.paramkind # "PARAM_EXTERN"
        THEN \* we can only handle param_externs
             [ret |-> FALSE, slot |-> slot]
        ELSE IF constantClause # NULL /\ constantClause.constisnull
        THEN \* we can only handle non-null constants
             [ret |-> FALSE, slot |-> slot]
        ELSE IF /\ distColumnExists
                /\ constantClause # NULL
                /\ distColumn.vartype = constantClause.consttype
                /\ slot.value = NULL
        THEN [ret |-> distColumnExists, slot |-> Store(slot, clause, constantClause)]
        ELSE IF paramClause # NULL
        THEN [ret |-> distColumnExists, slot |-> Store(slot, clause, paramClause)]
        ELSE [ret |-> distColumnExists, slot |-> slot]

RECURSIVE ConjunctionContainsColumnFilter_AnyBoolExpr(_, _, _)
RECURSIVE ConjunctionArguments_AnyBoolExpr(_, _, _, _)
\* faulty variant: ConjunctionContainsColumnFilter descending into OR as it does into AND
ConjunctionContainsColumnFilter_AnyBoolExpr(node, column, slot) ==
    IF node = NULL
    THEN [ret |-> FALSE, slot |-> slot]
    ELSE IF IsA(node, "OpExpr")
    THEN LET distKeyInSimpleOpExpression == DistKeyInSimpleOpExpression(node, column, slot)
         IN  IF ~distKeyInSimpleOpExpression.ret
             THEN [ret |-> FALSE, slot |-> distKeyInSimpleOpExpression.slot]
             ELSE [ret |-> OperatorImplementsEquality(node.opno),
                   slot |-> distKeyInSimpleOpExpression.slot]
    ELSE IF IsA(node, "BoolExpr")
    THEN IF node.boolop = "NOT_EXPR"
         THEN [ret |-> FALSE, slot |-> slot]
         ELSE ConjunctionArguments_AnyBoolExpr(node.args, 1, column, slot)
    ELSE [ret |-> FALSE, slot |-> slot]

ConjunctionArguments_AnyBoolExpr(argumentList, i, column, slot) ==
    IF i > Len(argumentList)
    THEN [ret |-> FALSE, slot |-> slot]
    ELSE LET argument ==
                 ConjunctionContainsColumnFilter_AnyBoolExpr(argumentList[i], column, slot)
         IN  IF argument.ret
             THEN [ret |-> TRUE, slot |-> argument.slot]
             ELSE ConjunctionArguments_AnyBoolExpr(argumentList, i + 1, column, argument.slot)

RECURSIVE ConjunctionContainsColumnFilter(_, _, _)
RECURSIVE ConjunctionArguments(_, _, _, _)
\* ConjunctionContainsColumnFilter(node, column, distributionKeyValue)
ConjunctionContainsColumnFilter(node, column, slot) ==
    IF node = NULL
    THEN [ret |-> FALSE, slot |-> slot]
    ELSE IF IsA(node, "OpExpr")
    THEN LET distKeyInSimpleOpExpression == DistKeyInSimpleOpExpression(node, column, slot)
         IN  IF ~distKeyInSimpleOpExpression.ret
             THEN [ret |-> FALSE, slot |-> distKeyInSimpleOpExpression.slot]
             ELSE [ret |-> OperatorImplementsEquality(node.opno),
                   slot |-> distKeyInSimpleOpExpression.slot]
    ELSE IF IsA(node, "BoolExpr")
    THEN IF node.boolop # "AND_EXPR"
         THEN \* we do not descend into boolean expressions other than AND
              [ret |-> FALSE, slot |-> slot]
         ELSE ConjunctionArguments(node.args, 1, column, slot)
    ELSE [ret |-> FALSE, slot |-> slot]

\* the foreach over boolExpr->args, from the i-th argument on: the first
\* argument that contains the filter ends the loop
ConjunctionArguments(argumentList, i, column, slot) ==
    IF i > Len(argumentList)
    THEN [ret |-> FALSE, slot |-> slot]
    ELSE LET argument == ConjunctionContainsColumnFilter(argumentList[i], column, slot)
         IN  IF argument.ret
             THEN [ret |-> TRUE, slot |-> argument.slot]
             ELSE ConjunctionArguments(argumentList, i + 1, column, argument.slot)

RECURSIVE CountColumnReferences(_, _, _)
\* the number of elements of varClauseList[i..] that equal the column
CountColumnReferences(varClauseList, i, distributionKey) ==
    IF i > Len(varClauseList)
    THEN 0
    ELSE (IF equal(varClauseList[i], distributionKey) THEN 1 ELSE 0)
         + CountColumnReferences(varClauseList, i + 1, distributionKey)

\* faulty variant: ColumnAppearsMultipleTimes with the count compared against 2
ColumnAppearsMultipleTimes_OffByOne(quals, distributionKey) ==
    LET varClauseList == pull_var_clause_default(quals)
        partitionColumnReferenceCount ==
            CountColumnReferences(varClauseList, 1, distributionKey)
    IN  partitionColumnReferenceCount > 2

\* ColumnAppearsMultipleTimes(quals, distributionKey)
ColumnAppearsMultipleTimes(quals, distributionKey) ==
    LET varClauseList == pull_var_clause_default(quals)
        partitionColumnReferenceCount ==
            CountColumnReferences(varClauseList, 1, distributionKey)
    IN  partitionColumnReferenceCount > 1

\* CheckInsertSelectQuery(query): an INSERT whose FROM list is one subquery
CheckInsertSelectQuery(query) ==
    /\ query.commandType = "CMD_INSERT"
    /\ query.jointree # NULL
    /\ Len(query.jointree.fromlist) = 1
    /\ query.rtable[query.jointree.fromlist[1]].rtekind = "RTE_SUBQUERY"

\* faulty variant: FastPathRouterQuery rejecting an empty WHERE clause whatever the table
FastPathRouterQuery_EmptyWhereAlwaysRejected(enabled, query, slot) ==
    LET joinTree == query.jointree
        rangeTableEntry == query.rtable[1]
        distributedTableId == rangeTableEntry.relid
        cacheEntry == GetCitusTableCacheEntry(distributedTableId)
        distributionKey == PartitionColumn(distributedTableId, 1)
        quals ==
            IF joinTree.quals # NULL /\ IsA(joinTree.quals, "List")
            THEN make_ands_explicit(joinTree.quals)
            ELSE joinTree.quals
        filter == ConjunctionContainsColumnFilter(quals, distributionKey, slot)
    IN  IF ~enabled
        THEN [ret |-> FALSE, slot |-> slot]
        ELSE IF \/ query.cteList # NULL
                \/ query.hasSubLinks
                \/ query.setOperations # NULL
                \/ query.hasTargetSRFs
                \/ query.hasModifyingCTE
        THEN [ret |-> FALSE, slot |-> slot]
        ELSE IF CheckInsertSelectQuery(query)
        THEN \* we don't support INSERT..SELECT in the fast-path
             [ret |-> FALSE, slot |-> slot]
        ELSE IF query.commandType = "CMD_INSERT"
        THEN \* all INSERTs are fast-path
             [ret |-> TRUE, slot |-> slot]
        ELSE IF Len(query.rtable) # 1
        THEN [ret |-> FALSE, slot |-> slot]
        ELSE IF rangeTableEntry.rtekind # "RTE_RELATION"
        THEN [ret |-> FALSE, slot |-> slot]
        ELSE IF \/ IsCitusTableTypeCacheEntry(cacheEntry, "RANGE_DISTRIBUTED")
                \/ IsCitusTableTypeCacheEntry(cacheEntry, "APPEND_DISTRIBUTED")
        THEN \* we don't want to deal with append/range distributed tables
             [ret |-> FALSE, slot |-> slot]
        ELSE IF \/ joinTree = NULL
                \/ joinTree.quals = NULL
        THEN \* WHERE clause should not be empty for distributed tables
             [ret |-> FALSE, slot |-> slot]
        ELSE IF distributionKey = NULL
        THEN \* a reference table: nothing further to check
             [ret |-> TRUE, slot |-> slot]
        ELSE IF filter.ret /\ ~ColumnAppearsMultipleTimes(quals, distributionKey)
        THEN [ret |-> TRUE, slot |-> filter.slot]
        ELSE [ret |-> FALSE, slot |-> filter.slot]

\* faulty variant: FastPathRouterQuery checking the range table before the INSERT shortcut
FastPathRouterQuery_RangeTableCheckedFirst(enabled, query, slot) ==
    LET joinTree == query.jointree
        rangeTableEntry == query.rtable[1]
        distributedTableId == rangeTableEntry.relid
        cacheEntry == GetCitusTableCacheEntry(distributedTableId)
        distributionKey == PartitionColumn(distributedTableId, 1)
        quals ==
            IF joinTree.quals # NULL /\ IsA(joinTree.quals, "List")
            THEN make_ands_explicit(joinTree.quals)
            ELSE joinTree.quals
        filter == ConjunctionContainsColumnFilter(quals, distributionKey, slot)
    IN  IF ~enabled
        THEN [ret |-> FALSE, slot |-> slot]
        ELSE IF \/ query.cteList # NULL
                \/ query.hasSubLinks
                \/ query.setOperations # NULL
                \/ query.hasTargetSRFs
                \/ query.hasModifyingCTE
        THEN [ret |-> FALSE, slot |-> slot]
        ELSE IF CheckInsertSelectQuery(query)
        THEN \* we don't support INSERT..SELECT in the fast-path
             [ret |-> FALSE, slot |-> slot]
        ELSE IF Len(query.rtable) # 1
        THEN [ret |-> FALSE, slot |-> slot]
        ELSE IF query.commandType = "CMD_INSERT"
        THEN \* all INSERTs are fast-path
             [ret |-> TRUE, slot |-> slot]
        ELSE IF rangeTableEntry.rtekind # "RTE_RELATION"
        THEN [ret |-> FALSE, slot |-> slot]
        ELSE IF \/ IsCitusTableTypeCacheEntry(cacheEntry, "RANGE_DISTRIBUTED")
                \/ IsCitusTableTypeCacheEntry(cacheEntry, "APPEND_DISTRIBUTED")
        THEN \* we don't want to deal with append/range distributed tables
             [ret |-> FALSE, slot |-> slot]
        ELSE IF \/ joinTree = NULL
                \/ /\ IsCitusTableTypeCacheEntry(cacheEntry, "DISTRIBUTED_TABLE")
                   /\ joinTree.quals = NULL
        THEN \* WHERE clause should not be empty for distributed tables
             [ret |-> FALSE, slot |-> slot]
        ELSE IF distributionKey = NULL
        THEN \* a reference table: nothing further to check
             [ret |-> TRUE, slot |-> slot]
        ELSE IF filter.ret /\ ~ColumnAppearsMultipleTimes(quals, distributionKey)
        THEN [ret |-> TRUE, slot |-> filter.slot]
        ELSE [ret |-> FALSE, slot |-> filter.slot]

\* FastPathRouterQuery(query, distributionKeyValue) under the setting `enabled`
\* of citus.enable_fast_path_router_planner
FastPathRouterQuery(enabled, query, slot) ==
    LET joinTree == query.jointree
        rangeTableEntry == query.rtable[1]
        distributedTableId == rangeTableEntry.relid
        cacheEntry == GetCitusTableCacheEntry(distributedTableId)
        distributionKey == PartitionColumn(distributedTableId, 1)
        quals ==
            IF joinTree.quals # NULL /\ IsA(joinTree.quals, "List")
            THEN make_ands_explicit(joinTree.quals)
            ELSE joinTree.quals
        filter == ConjunctionContainsColumnFilter(quals, distributionKey, slot)
    IN  IF ~enabled
        THEN [ret |-> FALSE, slot |-> slot]
        ELSE IF \/ query.cteList # NULL
                \/ query.hasSubLinks
                \/ query.setOperations # NULL
                \/ query.hasTargetSRFs
                \/ query.hasModifyingCTE
        THEN [ret |-> FALSE, slot |-> slot]
        ELSE IF CheckInsertSelectQuery(query)
        THEN \* we don't support INSERT..SELECT in the fast-path
             [ret |-> FALSE, slot |-> slot]
        ELSE IF query.commandType = "CMD_INSERT"
        THEN \* all INSERTs are fast-path
             [ret |-> TRUE, slot |-> slot]
        ELSE IF Len(query.rtable) # 1
        THEN [ret |-> FALSE, slot |-> slot]
        ELSE IF rangeTableEntry.rtekind # "RTE_RELATION"
        THEN [ret |-> FALSE, slot |-> slot]
        ELSE IF \/ IsCitusTableTypeCacheEntry(cacheEntry, "RANGE_DISTRIBUTED")
                \/ IsCitusTableTypeCacheEntry(cacheEntry, "APPEND_DISTRIBUTED")
        THEN \* we don't want to deal with append/range distributed tables
             [ret |-> FALSE, slot |-> slot]
        ELSE IF \/ joinTree = NULL
                \/ /\ IsCitusTableTypeCacheEntry(cacheEntry, "DISTRIBUTED_TABLE")
                   /\ joinTree.quals = NULL
        THEN \* WHERE clause should not be empty for distributed tables
             [ret |-> FALSE, slot |-> slot]
        ELSE IF distributionKey = NULL
        THEN \* a reference table: nothing further to check
             [ret |-> TRUE, slot |-> slot]
        ELSE IF filter.ret /\ ~ColumnAppearsMultipleTimes(quals, distributionKey)
        THEN [ret |-> TRUE, slot |-> filter.slot]
        ELSE [ret |-> FALSE, slot |-> filter.slot]

\* FetchStatementTargetList(stmt): the output columns of an optimizable statement
FetchStatementTargetList(query) ==
    IF query.commandType = "CMD_SELECT"
    THEN query.targetList
    ELSE query.returningList

RECURSIVE FirstCitusTableId(_, _)
\* the relation of the first entry of rangeTableList[i..] that is a Citus table
FirstCitusTableId(rangeTableList, i) ==
    IF i > Len(rangeTableList)
    THEN InvalidOid
    ELSE IF /\ rangeTableList[i].rtekind = "RTE_RELATION"
            /\ rangeTableList[i].relid \in CitusTables
    THEN rangeTableList[i].relid
    ELSE FirstCitusTableId(rangeTableList, i + 1)

\* ExtractFirstCitusTableId(query)
ExtractFirstCitusTableId(query) == FirstCitusTableId(query.rtable, 1)

\* faulty variant: GeneratePlaceHolderPlannedStmt copying the targetList of the query itself
GeneratePlaceHolderPlannedStmt_QueryTargetList(parse) ==
    LET seqScanNode ==
            [kind |-> "SeqScan",
             scanrelid |-> 1,
             targetlist |-> parse.targetList,
             qual |-> NULL,
             lefttree |-> NULL,
             righttree |-> NULL,
             plan_node_id |-> 1]
        relationId == ExtractFirstCitusTableId(parse)
    IN  [kind |-> "PlannedStmt",
         commandType |-> parse.commandType,
         queryId |-> parse.queryId,
         stmt_len |-> parse.stmt_len,
         rtable |-> parse.rtable,
         planTree |-> seqScanNode,
         hasReturning |-> (parse.returningList # <<>>),
         relationOids |-> <<relationId>>]

\* GeneratePlaceHolderPlannedStmt(parse): the PlannedStmt it returns
GeneratePlaceHolderPlannedStmt(parse) ==
    LET seqScanNode ==
            [kind |-> "SeqScan",
             scanrelid |-> 1,
             targetlist |-> FetchStatementTargetList(parse),
             qual |-> NULL,
             lefttree |-> NULL,
             righttree |-> NULL,
             plan_node_id |-> 1]
        relationId == ExtractFirstCitusTableId(parse)
    IN  [kind |-> "PlannedStmt",
         commandType |-> parse.commandType,
         queryId |-> parse.queryId,
         stmt_len |-> parse.stmt_len,
         rtable |-> parse.rtable,
         planTree |-> seqScanNode,
         hasReturning |-> (parse.returningList # <<>>),
         relationOids |-> <<relationId>>]

(***************************************************************************)
(* The queries handed to the planner.                                      *)
(***************************************************************************)
\* non-null constants of the distribution column's type
ColumnTypeConsts == {Const("int4", v, FALSE) : v \in 1..MaxConstValue}

ExternParams == {Param("PARAM_EXTERN", n) : n \in 1..MaxParamId}

\* what a column is compared with: constants of the column's type and of
\* another type, the null literal, $n and an executor parameter
ComparedValues ==
    ColumnTypeConsts
        \cup {Const("int8", 1, FALSE), Const("int4", 0, TRUE)}
        \cup ExternParams
        \cup {Param("PARAM_EXEC", 1)}

Columns == {DistKey, OtherCol}

\* column <op> value and value <op> column, columns compared with each other,
\* a function of the column compared with a constant, and a unary operator
Clauses ==
    {OpExpr(op, <<c, x>>) : c \in Columns, x \in ComparedValues, op \in {"=", "<"}}
        \cup {OpExpr(op, <<x, c>>) : c \in Columns, x \in ComparedValues, op \in {"=", "<"}}
        \cup {OpExpr("=", <<c, d>>) : c \in Columns, d \in Columns}
        \cup {OpExpr("=", <<FuncExpr(<<DistKey>>), Const("int4", 1, FALSE)>>),
              OpExpr("=", <<Const("int4", 1, FALSE), Const("int4", 1, FALSE)>>),
              OpExpr("-", <<DistKey>>),
              FuncExpr(<<DistKey>>),
              FuncExpr(<<>>)}

\* the clauses that boolean expressions nest two levels deep
NestedClauses ==
    {OpExpr("=", <<DistKey, Const("int4", 1, FALSE)>>),
     OpExpr("=", <<Param("PARAM_EXTERN", 1), DistKey>>),
     OpExpr("<", <<DistKey, Const("int4", 1, FALSE)>>),
     OpExpr("=", <<OtherCol, Const("int4", 1, FALSE)>>),
     OpExpr("=", <<OtherCol, Param("PARAM_EXTERN", 1)>>)}

\* boolean expressions over clauses
FlatBoolExprs ==
    {BoolExpr(op, <<a, b>>) : op \in {"AND_EXPR", "OR_EXPR"}, a \in Clauses, b \in Clauses}
        \cup {BoolExpr("NOT_EXPR", <<a>>) : a \in Clauses}

InnerBoolExprs ==
    {BoolExpr(op, <<a, b>>) :
        op \in {"AND_EXPR", "OR_EXPR"}, a \in NestedClauses, b \in NestedClauses}
        \cup {BoolExpr("NOT_EXPR", <<a>>) : a \in NestedClauses}

NestedBoolExprs ==
    {BoolExpr(op, <<a, n>>) :
        op \in {"AND_EXPR", "OR_EXPR"}, a \in NestedClauses, n \in InnerBoolExprs}
        \cup {BoolExpr(op, <<n, a>>) :
                op \in {"AND_EXPR", "OR_EXPR"}, a \in NestedClauses, n \in InnerBoolExprs}
        \cup {BoolExpr("AND_EXPR", <<a, b, c>>) :
                a \in NestedClauses, b \in NestedClauses, c \in NestedClauses}

\* qualifiers in implicit-AND form
QualLists ==
    {List(<<a>>) : a \in NestedClauses}
        \cup {List(<<a, b>>) : a \in NestedClauses, b \in NestedClauses}

WhereClauses ==
    {NULL} \cup Clauses \cup FlatBoolExprs \cup NestedBoolExprs \cup QualLists

\* a range table entry
RangeTblEntry(rtekind, relid) == [rtekind |-> rtekind, relid |-> relid]

RelationRtes == {RangeTblEntry("RTE_RELATION", r) : r \in CitusTables}

\* range tables: none, one relation, one subquery, a relation followed by a
\* VALUES list, a subquery or another relation
RangeTables ==
    {<<>>, <<RangeTblEntry("RTE_SUBQUERY", InvalidOid)>>}
        \cup {<<r>> : r \in RelationRtes}
        \cup {<<r, RangeTblEntry(k, InvalidOid)>> :
                r \in RelationRtes, k \in {"RTE_VALUES", "RTE_SUBQUERY"}}
        \cup {<<r, RangeTblEntry("RTE_RELATION", "hash_tbl")>> : r \in RelationRtes}

\* the constructs that rule the fast path out, as the set of those a query has
Constructs == {"cteList", "hasSubLinks", "setOperations", "hasTargetSRFs", "hasModifyingCTE"}

\* a parsed Query; the parser gives every optimizable statement a jointree
Query(commandType, constructs, rtable, fromlist, quals, targetList, returningList) ==
    [commandType |-> commandType,
     cteList |-> IF "cteList" \in constructs THEN List(<<"cte">>) ELSE NULL,
     hasSubLinks |-> "hasSubLinks" \in constructs,
     setOperations |-> IF "setOperations" \in constructs THEN [kind |-> "SetOperationStmt"] ELSE NULL,
     hasTargetSRFs |-> "hasTargetSRFs" \in constructs,
     hasModifyingCTE |-> "hasModifyingCTE" \in constructs,
     rtable |-> rtable,
     jointree |-> [kind |-> "FromExpr", fromlist |-> fromlist, quals |-> quals],
     targetList |-> targetList,
     returningList |-> returningList,
     queryId |-> Len(targetList),
     stmt_len |-> Len(targetList) + Len(returningList)]

\* the output columns and the RETURNING list of the enumerated queries
Projections == {<< <<"a", "b">>, <<>> >>, << <<"b">>, <<"b", "a">> >>}

\* queries of every command type and shape, over a few WHERE clauses
ShapeQueries ==
    {Query(cmd, constructs, rtable, fromlist, quals, p[1], p[2]) :
        cmd \in {"CMD_SELECT", "CMD_UPDATE", "CMD_DELETE", "CMD_INSERT"},
        constructs \in {{}} \cup {{c} : c \in Constructs},
        rtable \in RangeTables,
        fromlist \in {<<>>, <<1>>, <<2>>},
        quals \in {NULL, OpExpr("=", <<DistKey, Const("int4", 1, FALSE)>>),
                   OpExpr("=", <<OtherCol, Const("int4", 1, FALSE)>>)},
        p \in Projections}

\* queries on a hash-distributed or a reference table, over every WHERE clause
WhereQueries ==
    {Query(cmd, {}, <<RangeTblEntry("RTE_RELATION", t)>>, <<1>>, quals,
           <<"a", "b">>, <<>>) :
        cmd \in {"CMD_SELECT", "CMD_DELETE"},
        t \in {"hash_tbl", "ref_tbl"},
        quals \in WhereClauses}

\* what parse analysis guarantees: every range table reference of the FROM list
\* names an entry of the range table, and the first entry of the range table of
\* an INSERT, UPDATE or DELETE is its result relation
WellFormed(query) ==
    /\ \A i \in 1..Len(query.jointree.fromlist) :
          query.jointree.fromlist[i] \in 1..Len(query.rtable)
    /\ query.commandType # "CMD_SELECT"
          => query.rtable # <<>> /\ query.rtable[1].rtekind = "RTE_RELATION"

(***************************************************************************)
(* The planner as a state machine: one statement is planned per behaviour. *)
(***************************************************************************)
VARIABLES
    EnableFastPathRouterPlanner, \* citus.enable_fast_path_router_planner
    query,                       \* the Query being planned
    pc,                          \* "parsed", "classified", "planned" or "aborted"
    fastPathRouterQuery,         \* what FastPathRouterQuery returned
    distributionKeyValue,        \* the caller's slot
    plan                         \* the PlannedStmt of GeneratePlaceHolderPlannedStmt

vars == <<EnableFastPathRouterPlanner, query, pc, fastPathRouterQuery,
          distributionKeyValue, plan>>

Init ==
    /\ \/ query \in WhereQueries /\ EnableFastPathRouterPlanner = TRUE
       \/ /\ query \in {q \in ShapeQueries : WellFormed(q)}
          /\ EnableFastPathRouterPlanner \in BOOLEAN
    /\ pc = "parsed"
    /\ fastPathRouterQuery = FALSE
    /\ distributionKeyValue = EmptySlot
    /\ plan = NULL

\* the planner calls FastPathRouterQuery(parse, &distributionKeyValue) with an
\* empty slot
CallFastPathRouterQuery ==
    /\ pc = "parsed"
    /\ LET call == FastPathRouterQuery(EnableFastPathRouterPlanner, query, EmptySlot)
       IN  /\ fastPathRouterQuery' = call.ret
           /\ distributionKeyValue' = call.slot
    /\ pc' = "classified"
    /\ UNCHANGED <<EnableFastPathRouterPlanner, query, plan>>

\* GeneratePlaceHolderPlannedStmt(parse) returns the plan: the build has no
\* assertions, or AssertArg(FastPathRouterQuery(parse, &distKey)) holds
CallGeneratePlaceHolderPlannedStmt ==
    /\ pc = "classified"
    /\ \E assertChecking \in BOOLEAN :
          assertChecking =>
              FastPathRouterQuery(EnableFastPathRouterPlanner, query, EmptySlot).ret
    /\ plan' = GeneratePlaceHolderPlannedStmt(query)
    /\ pc' = "planned"
    /\ UNCHANGED <<EnableFastPathRouterPlanner, query, fastPathRouterQuery,
                   distributionKeyValue>>

\* AssertArg(FastPathRouterQuery(parse, &distKey)) fails in a build with
\* assertions: the backend aborts
AssertArgFails ==
    /\ pc = "classified"
    /\ ~FastPathRouterQuery(EnableFastPathRouterPlanner, query, EmptySlot).ret
    /\ pc' = "aborted"
    /\ UNCHANGED <<EnableFastPathRouterPlanner, query, fastPathRouterQuery,
                   distributionKeyValue, plan>>

Next ==
    \/ CallFastPathRouterQuery
    \/ CallGeneratePlaceHolderPlannedStmt
    \/ AssertArgFails

Spec == Init /\ [][Next]_vars

(***************************************************************************)
(* Vocabulary of the properties.                                           *)
(***************************************************************************)
\* FastPathRouterQuery has returned
Classified == pc # "parsed"

\* the WHERE clause of the query
Quals(q) == q.jointree.quals

\* the query has none of the constructs that rule the fast path out
NoRejectedConstruct(q) ==
    /\ q.cteList = NULL
    /\ ~q.hasSubLinks
    /\ q.setOperations = NULL
    /\ ~q.hasTargetSRFs
    /\ ~q.hasModifyingCTE

\* the range table is a single relation
SingleRelation(q) == Len(q.rtable) = 1 /\ q.rtable[1].rtekind = "RTE_RELATION"

\* a statement other than INSERT on one table of the given partition methods
NonInsertOn(q, partitionMethods) ==
    /\ q.commandType # "CMD_INSERT"
    /\ SingleRelation(q)
    /\ CitusTableCache[q.rtable[1].relid].partitionMethod \in partitionMethods

OnHashTable(q) == NonInsertOn(q, {"DISTRIBUTE_BY_HASH"})

Range(seq) == {seq[i] : i \in 1..Len(seq)}

RECURSIVE Conjuncts(_)
\* the conjuncts of the top-level AND of a WHERE clause
Conjuncts(node) ==
    CASE node = NULL -> {}
      [] IsA(node, "List") -> UNION {Conjuncts(e) : e \in Range(node.elements)}
      [] IsA(node, "BoolExpr") /\ node.boolop = "AND_EXPR" ->
            UNION {Conjuncts(a) : a \in Range(node.args)}
      [] OTHER -> {node}

\* the binary operator node compares the column with the value, in either order
Compares(node, column, value) ==
    /\ IsA(node, "OpExpr")
    /\ Len(node.args) = 2
    /\ \/ node.args[1] = column /\ node.args[2] = value
       \/ node.args[2] = column /\ node.args[1] = value

RECURSIVE References(_, _)
RECURSIVE SumReferences(_, _, _)
\* the number of references to the column anywhere in the tree
References(node, column) ==
    CASE node = column -> 1
      [] IsA(node, "List") -> SumReferences(node.elements, 1, column)
      [] node.kind \in {"OpExpr", "BoolExpr", "FuncExpr"} -> SumReferences(node.args, 1, column)
      [] OTHER -> 0

SumReferences(nodes, i, column) ==
    IF i > Len(nodes)
    THEN 0
    ELSE References(nodes[i], column) + SumReferences(nodes, i + 1, column)

\* an equality between the column and some constant or parameter
ColumnEquality(node, column) ==
    /\ IsA(node, "OpExpr")
    /\ OperatorImplementsEquality(node.opno)
    /\ Len(node.args) = 2
    /\ \/ node.args[1] = column /\ node.args[2].kind \in {"Const", "Param"}
       \/ node.args[2] = column /\ node.args[1].kind \in {"Const", "Param"}

\* a binary operator node over a column and a parameter or a constant
SwappableOperands(node) ==
    /\ IsA(node, "OpExpr")
    /\ Len(node.args) = 2
    /\ \/ IsA(node.args[1], "Var") /\ node.args[2].kind \in {"Const", "Param"}
       \/ IsA(node.args[2], "Var") /\ node.args[1].kind \in {"Const", "Param"}

RECURSIVE OperandSwaps(_)
\* the trees that differ from the tree by the swap of the operands of one node
OperandSwaps(node) ==
    CASE SwappableOperands(node) -> {OpExpr(node.opno, <<node.args[2], node.args[1]>>)}
      [] IsA(node, "BoolExpr") ->
            UNION {{[node EXCEPT !.args[i] = s] : s \in OperandSwaps(node.args[i])} :
                      i \in 1..Len(node.args)}
      [] IsA(node, "List") ->
            UNION {{[node EXCEPT !.elements[i] = s] : s \in OperandSwaps(node.elements[i])} :
                      i \in 1..Len(node.elements)}
      [] OTHER -> {}

\* the query with its WHERE clause replaced
WithQuals(q, quals) == [q EXCEPT !.jointree.quals = quals]

\* the plan is the placeholder of the query on the relation
PlanSkeleton(stmt, q, relationId) ==
    /\ stmt.relationOids = <<relationId>>
    /\ stmt.planTree.kind = "SeqScan"
    /\ stmt.planTree.scanrelid = 1
    /\ stmt.planTree.qual = NULL
    /\ stmt.planTree.lefttree = NULL
    /\ stmt.planTree.righttree = NULL
    /\ stmt.planTree.targetlist =
          (IF q.commandType = "CMD_SELECT" THEN q.targetList ELSE q.returningList)
    /\ stmt.commandType = q.commandType
    /\ stmt.queryId = q.queryId
    /\ stmt.stmt_len = q.stmt_len
    /\ stmt.rtable = q.rtable
    /\ stmt.hasReturning = (q.returningList # <<>>)

(***************************************************************************)
(* Properties.                                                             *)
(***************************************************************************)
\* C1: when a query on a hash-distributed table is classified eligible and a
\* value is recorded, the value is the operand opposite the distribution
\* column in a conjunct of the top-level AND of the WHERE clause.
RecordedValueOppositeDistKey ==
    (Classified /\ OnHashTable(query) /\ fastPathRouterQuery
        /\ distributionKeyValue.value # NULL)
    => \E c \in Conjuncts(Quals(query)) : Compares(c, DistKey, distributionKeyValue.value)

\* C2: when a query is classified eligible and the recorded value is a
\* constant, the constant is compared with the distribution column in a
\* conjunct of the WHERE clause and has the column's declared type.
RecordedConstSound ==
    (Classified /\ fastPathRouterQuery /\ IsA(distributionKeyValue.value, "Const"))
    => /\ SingleRelation(query)
       /\ LET distributionKey == PartitionColumn(query.rtable[1].relid, 1)
          IN  /\ distributionKey # NULL
              /\ \E c \in Conjuncts(Quals(query)) :
                    Compares(c, distributionKey, distributionKeyValue.value)
              /\ distributionKeyValue.value.consttype = distributionKey.vartype

RecordedConstWitness ==
    /\ Classified
    /\ fastPathRouterQuery
    /\ IsA(distributionKeyValue.value, "Const")
    /\ Quals(query) =
          BoolExpr("AND_EXPR", <<OpExpr("=", <<OtherCol, Const("int8", 1, FALSE)>>),
                                 OpExpr("=", <<Const("int4", 2, FALSE), DistKey>>)>>)

\* C3: during one walk the slot, once set, is never overwritten: every write
\* after the first leaves the first-found value in it.
SlotNeverOverwritten ==
    Classified =>
        \A i \in 2..Len(distributionKeyValue.writes) :
            distributionKeyValue.writes[i].value = distributionKeyValue.writes[1].value

\* C4: a query on a hash-distributed table, other than an INSERT, whose WHERE
\* clause refers to the distribution column more than once is ineligible.
DuplicateRejection ==
    (Classified /\ OnHashTable(query) /\ References(Quals(query), DistKey) > 1)
    => ~fastPathRouterQuery

DuplicateRejectionWitness ==
    /\ Classified
    /\ EnableFastPathRouterPlanner
    /\ OnHashTable(query)
    /\ NoRejectedConstruct(query)
    /\ Quals(query) =
          BoolExpr("AND_EXPR",
                   <<OpExpr("=", <<DistKey, Const("int4", 1, FALSE)>>),
                     BoolExpr("OR_EXPR",
                              <<OpExpr("<", <<DistKey, Const("int4", 1, FALSE)>>),
                                OpExpr("=", <<OtherCol, Const("int4", 1, FALSE)>>)>>)>>)
    /\ References(Quals(query), DistKey) = 2
    /\ distributionKeyValue.value = Const("int4", 1, FALSE)
    /\ ~fastPathRouterQuery

\* C5: a query on a hash-distributed table, other than an INSERT, in which
\* every equality between the distribution column and a constant or parameter
\* lies beneath a boolean node that is not AND is ineligible.
DisjunctionConservatism ==
    (Classified /\ OnHashTable(query)
        /\ \A c \in Conjuncts(Quals(query)) : ~ColumnEquality(c, DistKey))
    => ~fastPathRouterQuery

DisjunctionConservatismWitness ==
    /\ Classified
    /\ EnableFastPathRouterPlanner
    /\ OnHashTable(query)
    /\ NoRejectedConstruct(query)
    /\ Quals(query) =
          BoolExpr("OR_EXPR", <<OpExpr("=", <<DistKey, Const("int4", 1, FALSE)>>),
                                OpExpr("=", <<OtherCol, Const("int4", 1, FALSE)>>)>>)
    /\ ~fastPathRouterQuery

\* C6: with the flag on and no rejected construct, a statement other than
\* INSERT on a single relation is eligible with nothing recorded when the
\* table has no distribution column, whatever the WHERE clause; it is
\* ineligible on a hash-distributed table when the WHERE clause is empty, and
\* on a range- or append-distributed table whatever the WHERE clause.
ReferenceTableShortcut ==
    (Classified /\ EnableFastPathRouterPlanner /\ NoRejectedConstruct(query))
    => /\ NonInsertOn(query, {"DISTRIBUTE_BY_NONE"})
            => fastPathRouterQuery /\ distributionKeyValue.value = NULL
       /\ (OnHashTable(query) /\ Quals(query) = NULL) => ~fastPathRouterQuery
       /\ NonInsertOn(query, {"DISTRIBUTE_BY_RANGE", "DISTRIBUTE_BY_APPEND"})
            => ~fastPathRouterQuery

ReferenceTableShortcutWitness ==
    /\ Classified
    /\ EnableFastPathRouterPlanner
    /\ NoRejectedConstruct(query)
    /\ NonInsertOn(query, {"DISTRIBUTE_BY_NONE"})
    /\ Quals(query) = NULL
    /\ fastPathRouterQuery
    /\ distributionKeyValue = EmptySlot

\* C7: with the flag on, an INSERT without a rejected construct that is not an
\* INSERT ... SELECT is eligible with nothing recorded, whatever its range
\* table, table and WHERE clause; every INSERT ... SELECT is ineligible.
InsertShortcut ==
    (Classified /\ query.commandType = "CMD_INSERT")
    => /\ (EnableFastPathRouterPlanner /\ NoRejectedConstruct(query)
              /\ ~CheckInsertSelectQuery(query))
            => fastPathRouterQuery /\ distributionKeyValue.value = NULL
       /\ CheckInsertSelectQuery(query) => ~fastPathRouterQuery

InsertShortcutWitness ==
    /\ Classified
    /\ query.commandType = "CMD_INSERT"
    /\ Len(query.rtable) = 2
    /\ query.rtable[2].rtekind = "RTE_VALUES"
    /\ query.rtable[1].relid = "range_tbl"
    /\ Quals(query) # NULL
    /\ fastPathRouterQuery
    /\ distributionKeyValue = EmptySlot

\* C8: the plan GeneratePlaceHolderPlannedStmt returns for a query classified
\* eligible names the classified table as its only relation, scans range table
\* index 1 without qualifiers or child plans, carries the query's output
\* columns in order, its command type, query id, statement length, range table
\* and RETURNING flag; the query is left unchanged.
PlanSkeletonInvariant ==
    [][(pc = "classified" /\ pc' = "planned" /\ fastPathRouterQuery)
        => /\ PlanSkeleton(plan', query, query.rtable[1].relid)
           /\ query' = query]_vars

PlanSkeletonWitness ==
    /\ pc = "planned"
    /\ fastPathRouterQuery
    /\ query.commandType = "CMD_DELETE"
    /\ query.returningList = <<"b", "a">>
    /\ plan.planTree.targetlist = <<"b", "a">>
    /\ plan.relationOids = <<"hash_tbl">>

\* C9: swapping the operands of a binary operator node over a column and a
\* parameter or constant changes neither the verdict nor the recorded value;
\* $1 = dist_key and dist_key = $1 are eligible with $1 recorded.
OperandSymmetry ==
    Classified =>
        /\ \A swapped \in OperandSwaps(Quals(query)) :
              LET call == FastPathRouterQuery(EnableFastPathRouterPlanner,
                                              WithQuals(query, swapped), EmptySlot)
              IN  /\ call.ret = fastPathRouterQuery
                  /\ call.slot.value = distributionKeyValue.value
        /\ (/\ EnableFastPathRouterPlanner
            /\ NoRejectedConstruct(query)
            /\ OnHashTable(query)
            /\ \E n \in 1..MaxParamId :
                  Quals(query) \in {OpExpr("=", <<Param("PARAM_EXTERN", n), DistKey>>),
                                    OpExpr("=", <<DistKey, Param("PARAM_EXTERN", n)>>)})
           => /\ fastPathRouterQuery
              /\ IsA(distributionKeyValue.value, "Param")
              /\ Compares(Quals(query), DistKey, distributionKeyValue.value)

OperandSymmetryWitness ==
    /\ Classified
    /\ OnHashTable(query)
    /\ Quals(query) = OpExpr("=", <<Param("PARAM_EXTERN", 1), DistKey>>)
    /\ fastPathRouterQuery
    /\ distributionKeyValue.value = Param("PARAM_EXTERN", 1)

\* C10: whatever the verdict, a constant is written to the slot only at a
\* binary operator node that compares the distribution column with a non-null
\* constant of the column's type through an operator implementing equality.
ConstWrittenOnlyAtQualifyingMatch ==
    Classified =>
        \A i \in 1..Len(distributionKeyValue.writes) :
            LET write == distributionKeyValue.writes[i]
            IN  IsA(write.value, "Const")
                => /\ Compares(write.clause, DistKey, write.value)
                   /\ ~write.value.constisnull
                   /\ write.value.consttype = DistKey.vartype
                   /\ OperatorImplementsEquality(write.clause.opno)

====
